---- MODULE Spec2Model ----
(***************************************************************************)
(* Model of src/app.py: parse_csrs_file (the record extractor),            *)
(* calculate_gwa (the GWA aggregator) and the upload handler that chains   *)
(* them.                                                                   *)
(*                                                                         *)
(* Text is a sequence of one-character strings, so that trimming, colon    *)
(* removal, the ^(PE|NSTP) match and numeric coercion are computed on the  *)
(* characters.  A DataFrame is the sequence of its rows; a row is a        *)
(* function from column name to cell, and a column missing from a row's    *)
(* domain is the NaN pandas stores there.  Numbers are fixed-point         *)
(* integers in units of 1/Scale (Weighted_Grade in 1/Scale^2); a GWA, the  *)
(* only quotient, is a reduced fraction.                                   *)
(***************************************************************************)
EXTENDS Integers, Sequences, FiniteSets, TLC

\* ------------------------------------------------------------------ bounds
\* Longest record sequence handed directly to calculate_gwa.
MaxRows == 3
\* Most tables in an uploaded document.
MaxTables == 2
\* Fractional digits a number keeps (grades such as 1.25 need two).
FracDigits == 2

RECURSIVE Pow10(_)
Pow10(n) == IF n = 0 THEN 1 ELSE 10 * Pow10(n - 1)

Scale == Pow10(FracDigits)

\* -------------------------------------------------------------------- text
Upper == <<"A","B","C","D","E","F","G","H","I","J","K","L","M",
           "N","O","P","Q","R","S","T","U","V","W","X","Y","Z">>
Lower == <<"a","b","c","d","e","f","g","h","i","j","k","l","m",
           "n","o","p","q","r","s","t","u","v","w","x","y","z">>

\* case=False: both sides of the match are compared case-folded.
FoldChar(c) ==
  IF \E i \in 1..26 : Upper[i] = c
  THEN Lower[CHOOSE i \in 1..26 : Upper[i] = c]
  ELSE c

Fold(s) == [i \in 1..Len(s) |-> FoldChar(s[i])] \o <<>>

StartsWith(s, p) == Len(s) >= Len(p) /\ SubSeq(s, 1, Len(p)) = p

\* Python's `needle in text` on strings.
Contains(s, p) ==
  \E i \in 1..(Len(s) - Len(p) + 1) : SubSeq(s, i, i + Len(p) - 1) = p

Whitespace == {" ", "\t", "\n"}

RECURSIVE LStrip(_)
LStrip(s) == IF s # <<>> /\ s[1] \in Whitespace THEN LStrip(Tail(s)) ELSE s

RECURSIVE RStrip(_)
RStrip(s) ==
  IF s # <<>> /\ s[Len(s)] \in Whitespace
  THEN RStrip(SubSeq(s, 1, Len(s) - 1))
  ELSE s

\* get_text(strip=True) of a cell holding one text node.
GetTextStrip(cell) == RStrip(LStrip(cell.text))

\* str.replace(old, '') for a one-character old.
RECURSIVE RemoveChar(_, _)
RemoveChar(s, c) ==
  IF s = <<>> THEN <<>>
  ELSE IF s[1] = c THEN RemoveChar(Tail(s), c)
  ELSE <<s[1]>> \o RemoveChar(Tail(s), c)

\* ----------------------------------------------------------------- numbers
NaN == [nan |-> TRUE, v |-> 0]
Num(x) == [nan |-> FALSE, v |-> x]

Digits == <<"0","1","2","3","4","5","6","7","8","9">>
IsDigit(c) == \E i \in 1..10 : Digits[i] = c
DigitVal(c) == (CHOOSE i \in 1..10 : Digits[i] = c) - 1

RECURSIVE DigitsVal(_)
DigitsVal(s) ==
  IF s = <<>> THEN 0
  ELSE 10 * DigitsVal(SubSeq(s, 1, Len(s) - 1)) + DigitVal(s[Len(s)])

\* The first FracDigits fractional digits, as a count of 1/Scale.
FracVal(s) ==
  DigitsVal([i \in 1..FracDigits |-> IF i <= Len(s) THEN s[i] ELSE "0"])

\* pd.to_numeric(text, errors='coerce') on a decimal literal: an optional
\* sign, digits and at most one point, at least one digit; anything else is
\* NaN.  Exponents and the spellings of inf and nan are not in the inputs.
ToNumericText(s) ==
  LET signed == s # <<>> /\ s[1] \in {"+", "-"}
      body   == IF signed THEN Tail(s) ELSE s
      dots   == {i \in 1..Len(body) : body[i] = "."}
      ok     == /\ Cardinality(dots) <= 1
                /\ \A i \in 1..Len(body) : IsDigit(body[i]) \/ body[i] = "."
                /\ \E i \in 1..Len(body) : IsDigit(body[i])
      dot    == IF dots = {} THEN Len(body) + 1 ELSE CHOOSE i \in dots : TRUE
      whole  == SubSeq(body, 1, dot - 1)
      frac   == SubSeq(body, dot + 1, Len(body))
      mag    == DigitsVal(whole) * Scale + FracVal(frac)
  IN  IF ~ok THEN NaN
      ELSE IF signed /\ s[1] = "-" THEN Num(0 - mag) ELSE Num(mag)

Mul(a, b) == IF a.nan \/ b.nan THEN NaN ELSE Num(a.v * b.v)

RECURSIVE Gcd(_, _)
Gcd(a, b) == IF b = 0 THEN a ELSE Gcd(b, a % b)

Abs(x) == IF x < 0 THEN 0 - x ELSE x

\* The float 0.0.
Zero == [num |-> 0, den |-> 1]

\* weighted_sum / total_units for total_units # 0, as a reduced fraction:
\* weighted_sum counts 1/Scale^2 and total_units counts 1/Scale.
Quotient(weighted_sum, total_units) ==
  LET n == weighted_sum
      d == total_units * Scale
      g == Gcd(Abs(n), Abs(d))
      s == IF d < 0 THEN 0 - 1 ELSE 1
  IN  [num |-> (s * n) \div g, den |-> (s * d) \div g]

\* ----------------------------------------------------------- column names
CourseCol   == <<"C","o","u","r","s","e">>
GradeCol    == <<"G","r","a","d","e">>
UnitsCol    == <<"U","n","i","t","s">>
YearCol     == <<"Y","e","a","r">>
SemesterCol == <<"S","e","m","e","s","t","e","r">>
UnitsCalcCol     == <<"U","n","i","t","s","_","C","a","l","c">>
GradeCalcCol     == <<"G","r","a","d","e","_","C","a","l","c">>
IsIncludedCol    == <<"I","s","_","I","n","c","l","u","d","e","d">>
WeightedGradeCol == <<"W","e","i","g","h","t","e","d","_","G","r","a","d","e">>

\* ------------------------------------------------------------ data frames
\* pd.DataFrame(records): the columns are the union of the records' keys.
Columns(rows) == UNION {DOMAIN rows[i] : i \in DOMAIN rows}

\* A column's values as a sequence, each computed once.
Series(f) == f \o <<>>

\* dict[key] = val
DictPut(d, key, val) == (key :> val) @@ d

\* df[col] = values: every row gets the column.
SetColumn(rows, col, values) ==
  Series([i \in DOMAIN rows |-> DictPut(rows[i], col, values[i])])

\* pd.to_numeric(df[col], errors='coerce'), row by row: NaN stays NaN.
ToNumeric(rows, col) ==
  Series([i \in DOMAIN rows |->
            IF col \in DOMAIN rows[i] THEN ToNumericText(rows[i][col])
            ELSE NaN])

\* Mutant: the match without case=False.
MatchesExcludedCased(course) ==
  \/ StartsWith(course, <<"P","E">>)
  \/ StartsWith(course, <<"N","S","T","P">>)

\* str.contains(r'^(PE|NSTP)', case=False, regex=True) on one course text.
MatchesExcluded(course) ==
  \/ StartsWith(Fold(course), <<"p","e">>)
  \/ StartsWith(Fold(course), <<"n","s","t","p">>)

\* A row whose Course is NaN: str.contains yields NaN there and ~ raises on
\* an object column (pandas before 3), or yields False (pandas 3 str dtype).
CourseMissing(rows) == \E i \in DOMAIN rows : CourseCol \notin DOMAIN rows[i]

IsIncluded(rows) ==
  Series([i \in DOMAIN rows |->
            /\ ~(/\ CourseCol \in DOMAIN rows[i]
                 /\ MatchesExcluded(rows[i][CourseCol]))
            /\ ~rows[i][GradeCalcCol].nan])

\* Mutant: Weighted_Grade added to what the column already holds.
WeightedGradeAccumulated(rows) ==
  Series([i \in DOMAIN rows |->
            IF WeightedGradeCol \in DOMAIN rows[i]
            THEN Num(rows[i][WeightedGradeCol].v
                     + Mul(rows[i][GradeCalcCol], rows[i][UnitsCalcCol]).v)
            ELSE Mul(rows[i][GradeCalcCol], rows[i][UnitsCalcCol])])

WeightedGrade(rows) ==
  Series([i \in DOMAIN rows |->
            Mul(rows[i][GradeCalcCol], rows[i][UnitsCalcCol])])

\* Series.sum() of a numeric column: NaN is skipped, the empty sum is 0.
RECURSIVE SumColumn(_, _)
SumColumn(rows, col) ==
  IF rows = <<>> THEN 0
  ELSE (IF rows[1][col].nan THEN 0 ELSE rows[1][col].v)
       + SumColumn(Tail(rows), col)

\* Mutant: the Is_Included mask not applied.
ValidUnfiltered(rows) == rows

\* df[df['Is_Included']]
Valid(rows) ==
  LET Keep(r) == r[IsIncludedCol] IN SelectSeq(rows, Keep)

HasKey(r) == YearCol \in DOMAIN r /\ SemesterCol \in DOMAIN r
KeyOf(r) == <<r[YearCol], r[SemesterCol]>>

\* Mutant: a new group whenever the key differs from the row before.
RECURSIVE GroupKeysAdjacent(_, _)
GroupKeysAdjacent(rows, seen) ==
  IF rows = <<>> THEN <<>>
  ELSE IF HasKey(rows[1]) /\ KeyOf(rows[1]) \notin seen
       THEN <<KeyOf(rows[1])>>
            \o GroupKeysAdjacent(Tail(rows), {KeyOf(rows[1])})
       ELSE GroupKeysAdjacent(Tail(rows), seen)

\* groupby(['Year','Semester'], sort=False): the keys in first-seen order;
\* rows with NaN in a key column are dropped (dropna=True).
RECURSIVE GroupKeys(_, _)
GroupKeys(rows, seen) ==
  IF rows = <<>> THEN <<>>
  ELSE IF HasKey(rows[1]) /\ KeyOf(rows[1]) \notin seen
       THEN <<KeyOf(rows[1])>>
            \o GroupKeys(Tail(rows), seen \cup {KeyOf(rows[1])})
       ELSE GroupKeys(Tail(rows), seen)

Group(rows, key) ==
  LET In(r) == HasKey(r) /\ KeyOf(r) = key IN SelectSeq(rows, In)

\* Mutant: the fallback on a total of exactly zero only.
TermGwaNonZero(weighted_sum, total_units) ==
  IF total_units # 0 THEN Quotient(weighted_sum, total_units) ELSE Zero

TermGwa(weighted_sum, total_units) ==
  IF total_units > 0 THEN Quotient(weighted_sum, total_units) ELSE Zero

OverallGwa(weighted_sum_cum, total_units_cum) ==
  IF total_units_cum > 0 THEN Quotient(weighted_sum_cum, total_units_cum)
  ELSE Zero

ShortSem(sem) ==
  IF Contains(sem, <<"F","I","R","S","T">>)
  THEN <<"1","s","t"," ","S","e","m">>
  ELSE IF Contains(sem, <<"S","E","C","O","N","D">>)
       THEN <<"2","n","d"," ","S","e","m">>
       ELSE <<"M","i","d","s","e","m">>

SemRow(rows, key) ==
  LET valid == Valid(Group(rows, key))
      total_units == SumColumn(valid, UnitsCalcCol)
      weighted_sum == SumColumn(valid, WeightedGradeCol)
  IN  [Year |-> key[1],
       Semester |-> key[2],
       Term |-> key[1] \o <<" ">> \o ShortSem(key[2]),
       Units |-> total_units,
       GWA |-> TermGwa(weighted_sum, total_units)]

SemData(rows) ==
  LET keys == GroupKeys(rows, {})
  IN  Series([k \in DOMAIN keys |-> SemRow(rows, keys[k])])

\* calculate_gwa(df): what it leaves in df, and what it returns or raises.
\* A raise keeps the columns assigned before it.
CalculateGwa(rows, legacy) ==
  LET Raised(d, e) == [df |-> d, exc |-> e]
      d1 == SetColumn(rows, UnitsCalcCol, ToNumeric(rows, UnitsCol))
      d2 == SetColumn(d1, GradeCalcCol, ToNumeric(d1, GradeCol))
      d3 == SetColumn(d2, IsIncludedCol, IsIncluded(d2))
      d4 == SetColumn(d3, WeightedGradeCol, WeightedGrade(d3))
      valid_all == Valid(d4)
  IN  IF UnitsCol \notin Columns(rows) THEN Raised(rows, "KeyError")
      ELSE IF GradeCol \notin Columns(d1) THEN Raised(d1, "KeyError")
      ELSE IF CourseCol \notin Columns(d2) THEN Raised(d2, "KeyError")
      ELSE IF legacy /\ CourseMissing(d2) THEN Raised(d2, "TypeError")
      ELSE IF YearCol \notin Columns(d4) \/ SemesterCol \notin Columns(d4)
           THEN Raised(d4, "KeyError")
      ELSE [df |-> d4,
            df_sem |-> SemData(d4),
            overall_gwa |-> OverallGwa(SumColumn(valid_all, WeightedGradeCol),
                                       SumColumn(valid_all, UnitsCalcCol)),
            exc |-> "none"]

\* -------------------------------------------------------- parse_csrs_file
\* A document is the sequence of its tables in document order; a table has
\* a class and rows, a row is the sequence of its cells, a cell has a tag
\* ("th" or "td") and a text.  Tables are not nested.
Cells(row, tag) == LET Is(c) == c.tag = tag IN SelectSeq(row, Is)

\* soup.find('table', class_='form'): the first such table, or none.
InfoTables(document) ==
  LET Is(t) == t.class = "form" IN SelectSeq(document, Is)

RECURSIVE InfoRows(_, _)
InfoRows(rows, student_info) ==
  IF rows = <<>> THEN student_info
  ELSE LET cols == Cells(rows[1], "td")
       IN  IF Len(cols) = 2
           THEN InfoRows(Tail(rows),
                         DictPut(student_info,
                                 RemoveChar(GetTextStrip(cols[1]), ":"),
                                 GetTextStrip(cols[2])))
           ELSE InfoRows(Tail(rows), student_info)

StudentInfo(document) ==
  IF InfoTables(document) = <<>> THEN <<>>
  ELSE InfoRows(InfoTables(document)[1].rows, <<>>)

\* soup.find_all('table', class_='list')
GradeTables(document) ==
  LET Is(t) == t.class = "list" IN SelectSeq(document, Is)

\* [th.get_text(strip=True) for th in table.find_all('th')]: every th of the
\* table, whichever row holds it.
RECURSIVE Headers(_)
Headers(rows) ==
  IF rows = <<>> THEN <<>>
  ELSE LET ths == Cells(rows[1], "th")
       IN  [i \in 1..Len(ths) |-> GetTextStrip(ths[i])] \o Headers(Tail(rows))

\* {headers[i]: col.get_text(strip=True) for i, col in enumerate(cols)
\*  if i < len(headers)}: a later cell under a repeated header wins.
RECURSIVE RowData(_, _, _)
RowData(headers, cols, n) ==
  IF n = 0 THEN <<>>
  ELSE IF n <= Len(headers)
       THEN DictPut(RowData(headers, cols, n - 1),
                    headers[n], GetTextStrip(cols[n]))
       ELSE RowData(headers, cols, n - 1)

\* Mutant: rows with no cells not passed over.
SkipHeaderRowOnly(row) == Cells(row, "th") # <<>>

\* Whether a row of a grade table is passed over.
SkipRow(row) == Cells(row, "th") # <<>> \/ Cells(row, "td") = <<>>

RECURSIVE TableGrades(_, _)
TableGrades(headers, rows) ==
  IF rows = <<>> THEN <<>>
  ELSE IF SkipRow(rows[1]) THEN TableGrades(headers, Tail(rows))
  ELSE LET cols == Cells(rows[1], "td")
       IN  <<RowData(headers, cols, Len(cols))>>
           \o TableGrades(headers, Tail(rows))

RECURSIVE AllGrades(_)
AllGrades(tables) ==
  IF tables = <<>> THEN <<>>
  ELSE TableGrades(Headers(tables[1].rows), tables[1].rows)
       \o AllGrades(Tail(tables))

\* DataFrame.empty: no rows, or no columns.
Empty(rows) == rows = <<>> \/ Columns(rows) = {}

\* ------------------------------------------------------------------ inputs
T_MATH1 == <<"M","A","T","H","1">>
T_PE1 == <<"P","E","1">>
T_nstp1 == <<"n","s","t","p","1">>
T_APE2 == <<"A","P","E","2">>
T_CS2 == <<"C","S","2">>
T_G100 == <<"1",".","0">>
T_G250 == <<"2",".","5">>
T_G125 == <<"1",".","2","5">>
T_INC == <<"I","N","C">>
T_Blank == <<>>
T_U3 == <<"3">>
T_U2 == <<"2">>
T_UNeg3 == <<"-","3">>
T_Y2023 == <<"2","0","2","3">>
T_Y2022 == <<"2","0","2","2">>
T_FIRST == <<"F","I","R","S","T">>
T_SECOND == <<"S","E","C","O","N","D">>
T_MIDYEAR == <<"M","I","D","Y","E","A","R">>
T_NameKey == <<" ","N","a","m","e",":"," ">>
T_NameVal == <<"J","u","a","n"," ","D","e","l","a"," ","C","r","u","z"," ">>
T_NumKey == <<"S","t","u","d","e","n","t"," ","N","u","m","b","e","r",":">>
T_NumVal == <<"2","0","2","1","-","0","0","0","0","1">>
T_ColonKey == <<"T","e","r","m",":"," ","A","Y",":">>
T_Remark == <<"o","k">>
T_CourseHdr == <<" ","C","o","u","r","s","e"," ">>
T_X == <<"x">>
T_Y == <<"y">>

\* A record with the given keys and texts, position by position.
Record(keys, texts) ==
  [k \in {keys[i] : i \in DOMAIN keys} |->
     texts[CHOOSE i \in DOMAIN keys : keys[i] = k]]

AllCols == <<CourseCol, GradeCol, UnitsCol, YearCol, SemesterCol>>

\* Grade records calculate_gwa is called with: the two rows of the worked
\* example, excluded courses in either case, unparseable and blank grades,
\* blank and negative units, a mid-year term, a row cut short and a row
\* with no Course.
Records ==
  { Record(AllCols, <<T_MATH1, T_G100, T_U3, T_Y2023, T_FIRST>>),
    Record(AllCols, <<T_PE1, T_G100, T_U2, T_Y2023, T_FIRST>>),
    Record(AllCols, <<T_nstp1, T_G250, T_U3, T_Y2022, T_SECOND>>),
    Record(AllCols, <<T_MATH1, T_INC, T_U3, T_Y2022, T_SECOND>>),
    Record(AllCols, <<T_CS2, T_G250, T_UNeg3, T_Y2022, T_FIRST>>),
    Record(AllCols, <<T_CS2, T_Blank, T_U3, T_Y2023, T_FIRST>>),
    Record(AllCols, <<T_CS2, T_G125, T_Blank, T_Y2023, T_FIRST>>),
    Record(AllCols, <<T_APE2, T_G250, T_U2, T_Y2022, T_MIDYEAR>>),
    Record(<<CourseCol, GradeCol, UnitsCol>>, <<T_MATH1, T_G250, T_U3>>),
    Record(<<GradeCol, UnitsCol, YearCol, SemesterCol>>,
           <<T_G100, T_U3, T_Y2023, T_FIRST>>) }

RECURSIVE SeqsUpTo(_, _)
SeqsUpTo(S, n) ==
  IF n = 0 THEN {<<>>}
  ELSE LET shorter == SeqsUpTo(S, n - 1)
       IN  shorter \cup {Append(q, x) : q \in shorter, x \in S}

Th(t) == [tag |-> "th", text |-> t]
Td(t) == [tag |-> "td", text |-> t]

HeaderRow == <<Th(T_CourseHdr), Th(GradeCol), Th(UnitsCol), Th(YearCol),
               Th(SemesterCol)>>
ShortHeaderRow == <<Th(CourseCol), Th(GradeCol), Th(UnitsCol)>>

\* Tables an uploaded document is made of.
Tables ==
  { \* the student-info table of the worked example, with a one-cell row, a
    \* three-cell row and a row whose label is a th
    [class |-> "form",
     rows |-> << <<Td(T_NameKey), Td(T_NameVal)>>,
                 <<Td(T_Remark)>>,
                 <<Td(T_NumKey), Td(T_NumVal)>>,
                 <<Td(T_X), Td(T_Y), Td(T_Remark)>>,
                 <<Th(T_X), Td(T_Y)>> >>],
    \* a label with a colon inside it
    [class |-> "form",
     rows |-> << <<Td(T_ColonKey), Td(T_Remark)>> >>],
    \* the worked example's grade rows
    [class |-> "list",
     rows |-> << HeaderRow,
                 <<Td(T_MATH1), Td(T_G100), Td(T_U3), Td(T_Y2023), Td(T_FIRST)>>,
                 <<Td(T_PE1), Td(T_G100), Td(T_U2), Td(T_Y2023), Td(T_FIRST)>> >>],
    \* a full row, a row cut short and a row with no cells
    [class |-> "list",
     rows |-> << HeaderRow,
                 <<Td(T_CS2), Td(T_G125), Td(T_U3), Td(T_Y2022), Td(T_SECOND)>>,
                 <<>>,
                 <<Td(T_MATH1), Td(T_G250), Td(T_U3)>> >>],
    \* three header cells, five data cells
    [class |-> "list",
     rows |-> << ShortHeaderRow,
                 <<Td(T_CS2), Td(T_G250), Td(T_U3), Td(T_X), Td(T_Y)>> >>],
    \* no header cells
    [class |-> "list",
     rows |-> << <<Td(T_X), Td(T_Y)>> >>],
    \* the header row repeated further down
    [class |-> "list",
     rows |-> << ShortHeaderRow,
                 <<Td(T_MATH1), Td(T_G100), Td(T_U3)>>,
                 ShortHeaderRow,
                 <<Td(T_CS2), Td(T_G250), Td(T_U3), Td(T_X), Td(T_Y)>> >>],
    \* a table of another class
    [class |-> "other",
     rows |-> << <<Td(T_X), Td(T_Y)>> >>] }

Documents == SeqsUpTo(Tables, MaxTables)

\* ------------------------------------------------------------------- state
VARIABLES
  pc,            \* "call" | "upload" | "parsed" | "nodata" | "returned" | "raised"
  legacy,        \* pandas before 3: ~ of a NaN mask entry raises
  document,      \* the uploaded document
  student_info,  \* parse_csrs_file's first result
  df,            \* the grade table, extended in place by calculate_gwa
  df_sem,        \* calculate_gwa's term summaries
  overall_gwa,   \* calculate_gwa's overall figure
  exc,           \* what the last call raised, or "none"
  input,         \* the rows the last call of calculate_gwa was given
  prev,          \* what the call of calculate_gwa before the last returned
  calls          \* calls of calculate_gwa so far

vars == <<pc, legacy, document, student_info, df, df_sem, overall_gwa, exc,
          input, prev, calls>>

\* Most calls of calculate_gwa on one table.
MaxCalls == 2

NoResult == [df_sem |-> <<>>, overall_gwa |-> Zero]

Fresh ==
  /\ legacy \in BOOLEAN
  /\ student_info = <<>>
  /\ df_sem = <<>>
  /\ overall_gwa = Zero
  /\ exc = "none"
  /\ input = <<>>
  /\ prev = NoResult
  /\ calls = 0

\* calculate_gwa about to be called on a record sequence.
InitCall ==
  /\ pc = "call"
  /\ document = <<>>
  /\ df \in SeqsUpTo(Records, MaxRows)
  /\ Fresh

\* A document uploaded (line 74).
InitUpload ==
  /\ pc = "upload"
  /\ document \in Documents
  /\ df = <<>>
  /\ Fresh

Init == InitCall \/ InitUpload

\* The call of calculate_gwa on df, in whichever caller.
Call ==
  \E r \in {CalculateGwa(df, legacy)} :
      /\ input' = df
      /\ prev' = [df_sem |-> df_sem, overall_gwa |-> overall_gwa]
      /\ df' = r.df
      /\ df_sem' = IF r.exc = "none" THEN r.df_sem ELSE df_sem
      /\ overall_gwa' = IF r.exc = "none" THEN r.overall_gwa ELSE overall_gwa
      /\ exc' = r.exc
      /\ calls' = calls + 1
      /\ pc' = IF r.exc = "none" THEN "returned" ELSE "raised"

\* calculate_gwa(records)
DirectCall ==
  /\ pc = "call"
  /\ Call
  /\ UNCHANGED <<legacy, document, student_info>>

\* calculate_gwa again, on the table the last call returned.
Recalculate ==
  /\ pc = "returned"
  /\ calls < MaxCalls
  /\ Call
  /\ UNCHANGED <<legacy, document, student_info>>

\* info, raw_df = parse_csrs_file(uploaded_file)
ParseCsrsFile ==
  /\ pc = "upload"
  /\ student_info' = StudentInfo(document)
  /\ df' = AllGrades(GradeTables(document))
  /\ pc' = "parsed"
  /\ UNCHANGED <<legacy, document, df_sem, overall_gwa, exc, input, prev,
                 calls>>

\* if raw_df.empty: st.error(...)
UploadNoData ==
  /\ pc = "parsed"
  /\ Empty(df)
  /\ pc' = "nodata"
  /\ UNCHANGED <<legacy, document, student_info, df, df_sem, overall_gwa,
                 exc, input, prev, calls>>

\* else: processed_df, sem_df, overall_gwa = calculate_gwa(raw_df); a raise
\* is caught by the handler's except.
UploadCalculate ==
  /\ pc = "parsed"
  /\ ~Empty(df)
  /\ Call
  /\ UNCHANGED <<legacy, document, student_info>>

Next ==
  \/ DirectCall
  \/ Recalculate
  \/ ParseCsrsFile
  \/ UploadNoData
  \/ UploadCalculate

Spec == Init /\ [][Next]_vars

\* ------------------------------------------------------------------ claims
\* What the claims say, stated on the rows a call was given and not through
\* the operators above.

\* Course begins with PE or NSTP, in any case.
BeginsExcluded(course) ==
  \/ /\ Len(course) >= 2
     /\ course[1] \in {"P", "p"}
     /\ course[2] \in {"E", "e"}
  \/ /\ Len(course) >= 4
     /\ course[1] \in {"N", "n"}
     /\ course[2] \in {"S", "s"}
     /\ course[3] \in {"T", "t"}
     /\ course[4] \in {"P", "p"}

GradeOf(r) == IF GradeCol \in DOMAIN r THEN ToNumericText(r[GradeCol]) ELSE NaN
UnitsOf(r) == IF UnitsCol \in DOMAIN r THEN ToNumericText(r[UnitsCol]) ELSE NaN

Included(r) ==
  /\ ~(CourseCol \in DOMAIN r /\ BeginsExcluded(r[CourseCol]))
  /\ ~GradeOf(r).nan

IncludedRows == {i \in DOMAIN input : Included(input[i])}

InTerm(i, year, sem) ==
  /\ YearCol \in DOMAIN input[i] /\ input[i][YearCol] = year
  /\ SemesterCol \in DOMAIN input[i] /\ input[i][SemesterCol] = sem

TermRows(s) == {i \in IncludedRows : InTerm(i, s.Year, s.Semester)}

RECURSIVE UnitsOver(_)
UnitsOver(I) ==
  IF I = {} THEN 0
  ELSE LET i == CHOOSE j \in I : TRUE
       IN  (IF UnitsOf(input[i]).nan THEN 0 ELSE UnitsOf(input[i]).v)
           + UnitsOver(I \ {i})

RECURSIVE WeightedOver(_)
WeightedOver(I) ==
  IF I = {} THEN 0
  ELSE LET i == CHOOSE j \in I : TRUE
       IN  (IF UnitsOf(input[i]).nan THEN 0
            ELSE GradeOf(input[i]).v * UnitsOf(input[i]).v)
           + WeightedOver(I \ {i})

\* g is the quotient weighted / units (weighted in 1/Scale^2, units in
\* 1/Scale), units # 0.
IsQuotient(g, weighted, units) ==
  g.den > 0 /\ g.num * units * Scale = weighted * g.den

Returned == pc = "returned"

ExampleRows ==
  << Record(AllCols, <<T_MATH1, T_G100, T_U3, T_Y2023, T_FIRST>>),
     Record(AllCols, <<T_PE1, T_G100, T_U2, T_Y2023, T_FIRST>>) >>

\* C1: calculate_gwa raises for no record sequence, and for the empty
\* sequence returns no term summaries and OverallGWA = 0.0.
C1_NeverRaises ==
  /\ pc # "raised"
  /\ (calls >= 1 /\ input = <<>>) =>
       (Returned /\ df_sem = <<>> /\ overall_gwa = Zero)

\* C2: each term summary's Units is the sum of the numeric units of the
\* term's included records, its GWA is weighted sum / Units when Units > 0
\* and 0.0 when Units = 0; OverallGWA follows the same rule over all the
\* included records; MATH1 (1.0, 3) with PE1 (1.0, 2) gives Units 3, GWA 1.0.
C2_TermAndOverallFigures ==
  Returned =>
    /\ \A k \in DOMAIN df_sem :
         LET units == UnitsOver(TermRows(df_sem[k]))
             weighted == WeightedOver(TermRows(df_sem[k]))
         IN  /\ df_sem[k].Units = units
             /\ units > 0 => IsQuotient(df_sem[k].GWA, weighted, units)
             /\ units = 0 => df_sem[k].GWA = Zero
    /\ LET units == UnitsOver(IncludedRows)
           weighted == WeightedOver(IncludedRows)
       IN  /\ units > 0 => IsQuotient(overall_gwa, weighted, units)
           /\ units = 0 => overall_gwa = Zero
    /\ (calls = 1 /\ input = ExampleRows) =>
         /\ Len(df_sem) = 1
         /\ df_sem[1].Units = 3 * Scale
         /\ df_sem[1].GWA = [num |-> 1, den |-> 1]

\* A call returned one term with positive units that also holds an excluded
\* row, and one term whose included units are zero.
C2_Witness ==
  /\ Returned
  /\ \E k, l \in DOMAIN df_sem :
       /\ df_sem[k].Units > 0
       /\ df_sem[k].GWA # Zero
       /\ \E i \in DOMAIN input :
            /\ ~Included(input[i])
            /\ InTerm(i, df_sem[k].Year, df_sem[k].Semester)
       /\ df_sem[l].Units = 0
       /\ df_sem[l].GWA = Zero

\* C3 as stated: any non-zero total of included units, negative ones too,
\* gives weighted sum / total, never the 0.0 fallback.
C3_NonZeroTotalDivides ==
  Returned =>
    /\ \A k \in DOMAIN df_sem :
         UnitsOver(TermRows(df_sem[k])) # 0 =>
           IsQuotient(df_sem[k].GWA, WeightedOver(TermRows(df_sem[k])),
                      UnitsOver(TermRows(df_sem[k])))
    /\ UnitsOver(IncludedRows) # 0 =>
         IsQuotient(overall_gwa, WeightedOver(IncludedRows),
                    UnitsOver(IncludedRows))

\* C3 amended: a positive total of included units gives weighted sum /
\* total; a zero or negative total gives the 0.0 fallback, for every term
\* and for the overall figure.
C3_PositiveTotalDivides ==
  Returned =>
    /\ \A k \in DOMAIN df_sem :
         LET units == UnitsOver(TermRows(df_sem[k]))
         IN  /\ units > 0 =>
                  IsQuotient(df_sem[k].GWA, WeightedOver(TermRows(df_sem[k])),
                             units)
             /\ units <= 0 => df_sem[k].GWA = Zero
    /\ LET units == UnitsOver(IncludedRows)
       IN  /\ units > 0 =>
                IsQuotient(overall_gwa, WeightedOver(IncludedRows), units)
           /\ units <= 0 => overall_gwa = Zero

\* A term and an overall total that are negative with a non-zero weighted
\* sum, both reported as 0.0.
C3_Witness ==
  /\ Returned
  /\ UnitsOver(IncludedRows) < 0
  /\ WeightedOver(IncludedRows) # 0
  /\ overall_gwa = Zero
  /\ \E k \in DOMAIN df_sem :
       /\ df_sem[k].Units < 0
       /\ WeightedOver(TermRows(df_sem[k])) # 0
       /\ df_sem[k].GWA = Zero

\* C4: a record with a Course is included iff the Course does not begin
\* with PE or NSTP (any case) and its Grade parses to a number; a record
\* whose Grade does not parse is never included.
C4_IsIncluded ==
  \A i \in DOMAIN df :
    (calls >= 1 /\ IsIncludedCol \in DOMAIN df[i]) =>
      /\ CourseCol \in DOMAIN input[i] =>
           (df[i][IsIncludedCol] <=>
              (~BeginsExcluded(input[i][CourseCol]) /\ ~GradeOf(input[i]).nan))
      /\ GradeOf(input[i]).nan => ~df[i][IsIncludedCol]

\* One table with a lower-case nstp course holding a numeric grade, a
\* regular course graded INC and an included record.
C4_Witness ==
  /\ Returned
  /\ \E i, j, l \in DOMAIN df :
       /\ CourseCol \in DOMAIN input[i] /\ input[i][CourseCol] = T_nstp1
       /\ ~GradeOf(input[i]).nan
       /\ ~df[i][IsIncludedCol]
       /\ CourseCol \in DOMAIN input[j] /\ input[j][CourseCol] = T_MATH1
       /\ GradeCol \in DOMAIN input[j] /\ input[j][GradeCol] = T_INC
       /\ ~df[j][IsIncludedCol]
       /\ df[l][IsIncludedCol]

\* First row of the call's input that holds the term's (Year, Semester).
FirstRowOf(s) ==
  CHOOSE i \in DOMAIN input :
    /\ InTerm(i, s.Year, s.Semester)
    /\ \A j \in 1..(i - 1) : ~InTerm(j, s.Year, s.Semester)

\* C5: one term summary per distinct (Year, Semester) pair of the input, in
\* the order of the pairs' first occurrences; rows sharing a pair are merged
\* even when they are not adjacent.
C5_TermsInFirstSeenOrder ==
  Returned =>
    /\ \A i \in DOMAIN input :
         HasKey(input[i]) =>
           \E k \in DOMAIN df_sem :
             InTerm(i, df_sem[k].Year, df_sem[k].Semester)
    /\ \A k \in DOMAIN df_sem :
         \E i \in DOMAIN input : InTerm(i, df_sem[k].Year, df_sem[k].Semester)
    /\ \A k, l \in DOMAIN df_sem :
         k < l =>
           /\ <<df_sem[k].Year, df_sem[k].Semester>>
                # <<df_sem[l].Year, df_sem[l].Semester>>
           /\ FirstRowOf(df_sem[k]) < FirstRowOf(df_sem[l])

\* Rows of 2023, 2022, 2023: two summaries, 2023 first, the first one
\* holding the units of both its rows.
C5_Witness ==
  /\ Returned
  /\ Len(input) = 3
  /\ InTerm(1, T_Y2023, T_FIRST)
  /\ InTerm(2, T_Y2022, T_SECOND)
  /\ InTerm(3, T_Y2023, T_FIRST)
  /\ Len(df_sem) = 2
  /\ df_sem[1].Year = T_Y2023
  /\ df_sem[2].Year = T_Y2022
  /\ df_sem[1].Units = 6 * Scale

\* C8: calculate_gwa run again on the table it returned gives the same term
\* summaries and the same OverallGWA.
C8_RerunIsIdentical ==
  calls >= 2 =>
    /\ Returned
    /\ df_sem = prev.df_sem
    /\ overall_gwa = prev.overall_gwa

\* A second run over a table with derived columns and a non-zero result.
C8_Witness ==
  /\ calls = 2
  /\ Returned
  /\ \A i \in DOMAIN input : WeightedGradeCol \in DOMAIN input[i]
  /\ Len(df_sem) = 2
  /\ overall_gwa # Zero

RECURSIVE TermUnits(_)
TermUnits(sems) ==
  IF sems = <<>> THEN 0 ELSE sems[1].Units + TermUnits(Tail(sems))

RECURSIVE TermWeighted(_)
TermWeighted(sems) ==
  IF sems = <<>> THEN 0
  ELSE WeightedOver(TermRows(sems[1])) + TermWeighted(Tail(sems))

\* C10: every included record is counted in exactly one term summary: the
\* term Units add up to the overall included units and the term weighted
\* sums to the overall weighted sum, rows without Year or Semester too.
C10_TermsCoverIncluded ==
  Returned =>
    /\ TermUnits(df_sem) = UnitsOver(IncludedRows)
    /\ TermWeighted(df_sem) = WeightedOver(IncludedRows)

\* After parse_csrs_file and before calculate_gwa extends the table.
Parsed == pc \in {"parsed", "nodata"}

ListTables == {t \in DOMAIN document : document[t].class = "list"}

\* A row of a grade table that is no header row and has a cell.
DataRow(row) == Len(row) > 0 /\ \A c \in DOMAIN row : row[c].tag # "th"

\* (table, row) of every data row of every grade table.
DataRows ==
  UNION {{<<t, r>> : r \in {q \in DOMAIN document[t].rows :
                              DataRow(document[t].rows[q])}} : t \in ListTables}

\* Place of a data row in document order.
Rank(p) ==
  1 + Cardinality({q \in DataRows :
                     q[1] < p[1] \/ (q[1] = p[1] /\ q[2] < p[2])})

RowAt(p) == document[p[1]].rows[p[2]]

\* C9: the records returned are one per data row of every grade table, in
\* document order across tables; header rows and rows with no cells give no
\* record.
C9_RecordsInDocumentOrder ==
  Parsed =>
    /\ Len(df) = Cardinality(DataRows)
    /\ \A p \in DataRows :
         df[Rank(p)] = RowData(Headers(document[p[1]].rows), RowAt(p),
                               Len(RowAt(p)))

\* Two grade tables with different records, the first one holding a header
\* row and a row with no cells ahead of its last data row.
C9_Witness ==
  /\ pc = "parsed"
  /\ Cardinality(ListTables) = 2
  /\ \E p, q \in DataRows :
       /\ p[1] < q[1]
       /\ p[2] = 4
       /\ RowAt(p) # RowAt(q)
       /\ document[p[1]].rows[3] = <<>>
       /\ ~DataRow(document[p[1]].rows[1])
       /\ df[Rank(p)] # df[Rank(q)]
       /\ Rank(q) = Len(df)

\* The header cells of a table's first row.
FirstRowHeaders(t) ==
  IF document[t].rows = <<>> THEN <<>>
  ELSE LET ths == Cells(document[t].rows[1], "th")
       IN  [i \in DOMAIN ths |-> GetTextStrip(ths[i])]

Min(a, b) == IF a < b THEN a ELSE b

\* C6: every record maps its row's cells, by position, to the header cells
\* of the first row of its table, cut to the shorter of the two.
C6_MapsToFirstRowHeaders ==
  Parsed =>
    \A p \in DataRows :
      LET hdr == FirstRowHeaders(p[1])
          n == Min(Len(hdr), Len(RowAt(p)))
      IN  /\ DOMAIN df[Rank(p)] = {hdr[i] : i \in 1..n}
          /\ \A i \in 1..n : df[Rank(p)][hdr[i]] = GetTextStrip(RowAt(p)[i])

StripTrailingColon(s) ==
  IF s # <<>> /\ s[Len(s)] = ":" THEN SubSeq(s, 1, Len(s) - 1) ELSE s

FormTables == {t \in DOMAIN document : document[t].class = "form"}

\* The rows of the student-info table that have exactly two cells.
InfoPairs ==
  IF FormTables = {} THEN {}
  ELSE LET rows == document[CHOOSE t \in FormTables :
                              \A u \in FormTables : t <= u].rows
       IN  {Cells(rows[r], "td") :
              r \in {q \in DOMAIN rows : Len(Cells(rows[q], "td")) = 2}}

\* C7: StudentInfo holds one entry per two-cell row of the student-info
\* table, its key the first cell's trimmed text less a trailing colon and
\* its value the second cell's trimmed text; no table, no entries.
C7_TrailingColonStripped ==
  Parsed =>
    /\ DOMAIN student_info =
         {StripTrailingColon(GetTextStrip(c[1])) : c \in InfoPairs}
    /\ \A c \in InfoPairs :
         student_info[StripTrailingColon(GetTextStrip(c[1]))]
           = GetTextStrip(c[2])

====
